---- MODULE Spec2Model ----
(***************************************************************************)
(* Client-side task lifecycle of the Dynamic Agentic System front end.     *)
(*                                                                         *)
(* ChatPanel.handleSendMessage races three synthetic timers (500, 1300,    *)
(* 2500 ms) against one processQuery call; FileUpload.onDrop runs one      *)
(* progress interval per file against one onFileUpload call.  Everything   *)
(* runs on the single UI thread: an action is one event-loop task (an      *)
(* event handler, a timer callback, or the continuation of an await).      *)
(***************************************************************************)
EXTENDS Integers, Sequences, FiniteSets, TLC

(***************************************************************************)
(* Bounds of the model.                                                    *)
(***************************************************************************)
\* number of queries that may be submitted
MaxQueries == 2
\* an invocation's clock stops here (milliseconds since its start)
MaxTime == 7000

\* number of onDrop invocations
MaxDrops == 2
\* number of files dropped, over all drops
MaxFiles == 2
\* Files dropped in all while a LeftPanel is looked into.
MaxPanelFiles == 1

(***************************************************************************)
(* Program constants of ChatPanel.handleSendMessage (milliseconds).        *)
(***************************************************************************)
Delay1 == 500
Delay2 == 1300
Delay3 == 2500
FinalDelay == 3500
Duration1 == 500
Duration2 == 800
Duration3 == 1200
Duration4 == 1000
TotalDuration == 3500

RECURSIVE Gcd(_, _)
Gcd(a, b) == IF b = 0 THEN a ELSE Gcd(b, a % b)

\* The clock's grain: the coarsest one on which every timer deadline lies.
Quantum == Gcd(Gcd(Delay1, Delay2), Gcd(Delay3, FinalDelay))

(***************************************************************************)
(* Values.  A string of the program is a sequence of characters, so that   *)
(* String.trim is computed and not assumed.                                *)
(***************************************************************************)
Inputs == {<<>>, <<" ">>, <<"a">>}

RECURSIVE TrimStart(_)
TrimStart(s) == IF s # <<>> /\ Head(s) = " " THEN TrimStart(Tail(s)) ELSE s

RECURSIVE TrimEnd(_)
TrimEnd(s) ==
    IF s # <<>> /\ s[Len(s)] = " " THEN TrimEnd(SubSeq(s, 1, Len(s) - 1)) ELSE s

Trim(s) == TrimEnd(TrimStart(s))

NoPersona == "null"
Personas == {"financial"}

NoTrace == [ref |-> 0, totalDuration |-> 0, finalResult |-> <<>>]

WelcomeText == "Welcome to the Dynamic Agentic System!"
FallbackText == "Sorry, I encountered an error processing your query. Please try again."

\* What processQuery may resolve with (QueryResponse).
Responses ==
    { [success |-> TRUE, response |-> "Revenue grew 12%.",
       suggested_queries |-> << <<"a">> >>],
      [success |-> FALSE, response |-> "", suggested_queries |-> <<>>] }

QueryIds == 1 .. MaxQueries

VARIABLES
    elapsed,          \* per invocation: milliseconds since it started, while it
                      \* still waits for its call or for a timer (0 afterwards)
    inputValue,       \* ChatPanel state
    suggestedQueries, \* ChatPanel state
    selectedPersona,  \* Home state
    messages,         \* Home state
    isProcessing,     \* Home state
    processingTrace,  \* Home state: NoTrace, or a shallow copy of a trace object
    queries,          \* number of handleSendMessage invocations that passed the guard
    queryCalls,       \* per invocation: how many times it has called processQuery
    trace,            \* per invocation: the closure's mutable trace object
    call,             \* per invocation: the processQuery promise
    response,         \* per invocation: what the promise resolved with
    persona,          \* per invocation: the selectedPersona the closure captured
    timers            \* pending setTimeout callbacks

chatVars ==
    << elapsed, inputValue, suggestedQueries, selectedPersona, messages,
       isProcessing, processingTrace, queries, queryCalls, trace, call, response,
       persona, timers >>

VARIABLES
    uploads,          \* FileUpload state: the rows shown
    intervals,        \* ids of the uploads whose setInterval is not cleared
    drops,            \* per onDrop invocation: its files and where its loop stands
    nextId,           \* stands for Math.random(): ids are fresh
    dropped,          \* number of files handed to the dropzone so far
    offered,          \* per onDrop invocation: the files the user dropped on the zone
    uploadCalls       \* the calls of onFileUpload so far, in order

uploadVars == << uploads, intervals, drops, nextId, dropped, offered, uploadCalls >>

VARIABLES
    panel,             \* which LeftPanel renders FileUpload, NoPanel for another parent
    isLoadingDatasets, \* LeftPanel state
    datasets,          \* Home state
    loads,             \* getDatasets requests in flight for the mount effect or the button
    refreshing,        \* onDrop invocations whose handleFileUpload awaits loadDatasets
    transport,         \* per upload id: how its uploadFile request ended
    refreshFailed      \* upload ids whose follow-up loadDatasets got no datasets

panelVars ==
    << panel, isLoadingDatasets, datasets, loads, refreshing, transport, refreshFailed >>

vars == << chatVars, uploadVars, panelVars >>

(***************************************************************************)
(* The trace object of one invocation.                                     *)
(***************************************************************************)
Step(status, duration) == [status |-> status, duration |-> duration]

NewTrace(query) ==
    [ query |-> query,
      steps |-> << Step("processing", <<>>), Step("pending", <<>>),
                   Step("pending", <<>>), Step("pending", <<>>) >>,
      totalDuration |-> 0,
      finalResult |-> <<>> ]

EmptyTrace == [query |-> <<>>, steps |-> <<>>, totalDuration |-> 0, finalResult |-> <<>>]

\* onProcessingTrace({ ...trace }): the copy is shallow, steps stay shared.
Publish(q, t) ==
    [ref |-> q, totalDuration |-> t.totalDuration, finalResult |-> t.finalResult]

\* The steps a consumer of processingTrace reads (through the shared array).
VisibleSteps == IF processingTrace.ref = 0 THEN <<>> ELSE trace[processingTrace.ref].steps

\* A slip in the schedule: the first two deadlines exchanged.
StepDelaySwapped(i) == CASE i = 1 -> Delay2 [] i = 2 -> Delay1 [] i = 3 -> Delay3

\* A slip in the schedule: each delay counted from the previous deadline.
StepDelayChained(i) ==
    CASE i = 1 -> Delay1 [] i = 2 -> Delay1 + Delay2 [] i = 3 -> Delay1 + Delay2 + Delay3

StepDelay(i) == CASE i = 1 -> Delay1 [] i = 2 -> Delay2 [] i = 3 -> Delay3

StepDuration(i) ==
    CASE i = 1 -> Duration1 [] i = 2 -> Duration2 [] i = 3 -> Duration3 [] i = 4 -> Duration4

Timer(q, step, due) == [query |-> q, step |-> step, due |-> due]

\* An invocation that still waits for its call or for one of its timers.
Active(q) == call[q] = "pending" \/ \E t \in timers : t.query = q

\* The invocation's clock after one of its events: nothing reads it once the
\* invocation has nothing left to wait for.
Stopwatch(q, stillActive) == [elapsed EXCEPT ![q] = IF stillActive THEN @ ELSE 0]

\* A timer's deadline is kept on its own invocation's clock.
Due(t) == t.due <= elapsed[t.query]

\* setTimeout callbacks run in the order of their deadlines, and of their
\* registration when the deadlines are equal: time stands still while a callback
\* is due, so the callbacks that are due have one deadline.
Before(t, u) ==
    \/ t.query < u.query
    \/ t.query = u.query /\ t.step < u.step

Ready(t) == t \in timers /\ Due(t) /\ \A u \in timers : Due(u) => (u = t \/ Before(t, u))

UserMessage(q, content) ==
    [type |-> "user", content |-> content, query |-> q,
     suggestedQueries |-> <<>>, persona |-> NoPersona]

\* A slip in the reply: the suggested queries are left out.
AssistantMessageNoSuggestions(q, resp, p) ==
    [type |-> "assistant", content |-> resp.response, query |-> q,
     suggestedQueries |-> <<>>, persona |-> p]

AssistantMessage(q, resp, p) ==
    [type |-> "assistant", content |-> resp.response, query |-> q,
     suggestedQueries |-> resp.suggested_queries, persona |-> p]

ErrorMessage(q) ==
    [type |-> "assistant", content |-> FallbackText, query |-> q,
     suggestedQueries |-> <<>>, persona |-> NoPersona]

WelcomeMessage ==
    [type |-> "assistant", content |-> WelcomeText, query |-> 0,
     suggestedQueries |-> <<>>, persona |-> NoPersona]

(***************************************************************************)
(* Initial state: Home mounted, its welcome effect run.                    *)
(***************************************************************************)
ChatInit ==
    /\ elapsed = [q \in QueryIds |-> 0]
    /\ inputValue = <<>>
    /\ suggestedQueries = <<>>
    /\ selectedPersona = NoPersona
    /\ messages = << WelcomeMessage >>
    /\ isProcessing = FALSE
    /\ processingTrace = NoTrace
    /\ queries = 0
    /\ queryCalls = [q \in QueryIds |-> 0]
    /\ trace = [q \in QueryIds |-> EmptyTrace]
    /\ call = [q \in QueryIds |-> "none"]
    /\ response = [q \in QueryIds |-> <<>>]
    /\ persona = [q \in QueryIds |-> NoPersona]
    /\ timers = {}

(***************************************************************************)
(* User events.                                                            *)
(***************************************************************************)
\* LeftPanel: onPersonaSelect(persona)
SelectPersona(p) ==
    /\ selectedPersona # p
    /\ selectedPersona' = p
    /\ UNCHANGED << elapsed, inputValue, suggestedQueries, messages, isProcessing,
                    processingTrace, queries, queryCalls, trace, call, response, persona, timers >>
    /\ UNCHANGED << uploadVars, panelVars >>

\* The input's onChange; the element is disabled without a persona or while processing.
SetInputValue(v) ==
    /\ selectedPersona # NoPersona
    /\ ~isProcessing
    /\ inputValue # v
    /\ inputValue' = v
    /\ UNCHANGED << elapsed, suggestedQueries, selectedPersona, messages, isProcessing,
                    processingTrace, queries, queryCalls, trace, call, response, persona, timers >>
    /\ UNCHANGED << uploadVars, panelVars >>

\* The suggestions a user can click: those of a message, and the panel's own
\* (the latter are rendered only while not processing).
Clickable ==
    UNION { {messages[k].suggestedQueries[i] :
                i \in 1 .. Len(messages[k].suggestedQueries)} :
            k \in 1 .. Len(messages) }
    \cup (IF isProcessing THEN {}
          ELSE {suggestedQueries[i] : i \in 1 .. Len(suggestedQueries)})

HandleSuggestedQuery(s) ==
    /\ s \in Clickable
    /\ inputValue # s
    /\ inputValue' = s
    /\ UNCHANGED << elapsed, suggestedQueries, selectedPersona, messages, isProcessing,
                    processingTrace, queries, queryCalls, trace, call, response, persona, timers >>
    /\ UNCHANGED << uploadVars, panelVars >>

\* A slip in the guard: the input is not trimmed, blanks count as a query.
CanSendBlanks == inputValue # <<>> /\ selectedPersona # NoPersona /\ ~isProcessing

\* The guard of handleSendMessage: anything else returns at once.
CanSend == Trim(inputValue) # <<>> /\ selectedPersona # NoPersona /\ ~isProcessing

\* handleSendMessage, up to its await.
StartQuery(q) ==
    /\ messages' = Append(messages, UserMessage(q, inputValue))
    /\ inputValue' = <<>>
    /\ isProcessing' = TRUE
    /\ trace' = [trace EXCEPT ![q] = NewTrace(inputValue)]
    /\ processingTrace' = Publish(q, NewTrace(inputValue))
    /\ timers' = timers \cup {Timer(q, i, StepDelay(i)) : i \in 1 .. 3}
    /\ call' = [call EXCEPT ![q] = "pending"]
    /\ persona' = [persona EXCEPT ![q] = selectedPersona]
    /\ queries' = q
    /\ queryCalls' = [queryCalls EXCEPT ![q] = @ + 1]
    /\ UNCHANGED << elapsed, suggestedQueries, selectedPersona, response >>
    /\ UNCHANGED << uploadVars, panelVars >>

HandleSendMessage ==
    /\ CanSend
    /\ queries < MaxQueries
    /\ StartQuery(queries + 1)

HandleSendMessageIgnored ==
    /\ ~CanSend
    /\ UNCHANGED vars

(***************************************************************************)
(* Timer callbacks.                                                        *)
(***************************************************************************)
\* The callbacks at 500, 1300 and 2500 ms: step i completed, step i+1 processing.
\* A slip in the step callbacks: step i is not marked completed.
AdvanceStepsLeavesProcessing(steps, i) ==
    [steps EXCEPT ![i + 1] = Step("processing", steps[i + 1].duration)]

AdvanceSteps(steps, i) ==
    [steps EXCEPT ![i] = Step("completed", << StepDuration(i) >>),
                  ![i + 1] = Step("processing", steps[i + 1].duration)]

StepTimer(t) ==
    /\ Ready(t)
    /\ t.step \in 1 .. 3
    /\ LET q == t.query
           nt == [trace[q] EXCEPT !.steps = AdvanceSteps(trace[q].steps, t.step)]
       IN /\ trace' = [trace EXCEPT ![q] = nt]
          /\ processingTrace' = Publish(q, nt)
    /\ timers' = timers \ {t}
    /\ elapsed' = Stopwatch(t.query, call[t.query] = "pending"
                                      \/ \E u \in timers \ {t} : u.query = t.query)
    /\ UNCHANGED << inputValue, suggestedQueries, selectedPersona, messages,
                    isProcessing, queries, queryCalls, call, response, persona >>
    /\ UNCHANGED << uploadVars, panelVars >>

\* A slip in the final callback: the result is not attached.
CompleteTraceNoResult(t, resp) ==
    [t EXCEPT !.steps[4] = Step("completed", << Duration4 >>),
              !.totalDuration = TotalDuration]

\* A slip in the final callback: totalDuration is not stamped.
CompleteTraceNoTotal(t, resp) ==
    [t EXCEPT !.steps[4] = Step("completed", << Duration4 >>),
              !.finalResult = << resp >>]

\* The callback scheduled after the await: step 4 completed, the reply appended.
CompleteTrace(t, resp) ==
    [t EXCEPT !.steps[4] = Step("completed", << Duration4 >>),
              !.totalDuration = TotalDuration,
              !.finalResult = << resp >>]

\* A slip in the final callback: setIsProcessing(false) is forgotten.
FinalTimerKeepsFlag(t) ==
    /\ Ready(t)
    /\ t.step = 4
    /\ LET q == t.query
           nt == CompleteTrace(trace[q], response[q][1])
       IN /\ trace' = [trace EXCEPT ![q] = nt]
          /\ processingTrace' = Publish(q, nt)
          /\ messages' = Append(messages, AssistantMessage(q, response[q][1], persona[q]))
          /\ suggestedQueries' = response[q][1].suggested_queries
    /\ isProcessing' = isProcessing
    /\ timers' = timers \ {t}
    /\ elapsed' = Stopwatch(t.query, \E u \in timers \ {t} : u.query = t.query)
    /\ UNCHANGED << inputValue, selectedPersona, queries, queryCalls, call, response, persona >>
    /\ UNCHANGED << uploadVars, panelVars >>

FinalTimer(t) ==
    /\ Ready(t)
    /\ t.step = 4
    /\ LET q == t.query
           nt == CompleteTrace(trace[q], response[q][1])
       IN /\ trace' = [trace EXCEPT ![q] = nt]
          /\ processingTrace' = Publish(q, nt)
          /\ messages' = Append(messages, AssistantMessage(q, response[q][1], persona[q]))
          /\ suggestedQueries' = response[q][1].suggested_queries
    /\ isProcessing' = FALSE
    /\ timers' = timers \ {t}
    /\ elapsed' = Stopwatch(t.query, \E u \in timers \ {t} : u.query = t.query)
    /\ UNCHANGED << inputValue, selectedPersona, queries, queryCalls, call, response, persona >>
    /\ UNCHANGED << uploadVars, panelVars >>

(***************************************************************************)
(* The processQuery promise settles.                                       *)
(***************************************************************************)
\* A slip after the await: the final callback is scheduled with no delay.
FinalDueAtOnce(q) == elapsed[q]

\* When the await's continuation schedules the final callback.
FinalDue(q) == elapsed[q] + FinalDelay

\* A slip after the await: a response with success = false is thrown once the final
\* callback is scheduled, so the catch block runs as well.
ResolveQueryThenThrow(q, resp) ==
    /\ call[q] = "pending"
    /\ call' = [call EXCEPT ![q] = "resolved"]
    /\ response' = [response EXCEPT ![q] = << resp >>]
    /\ timers' = timers \cup {Timer(q, 4, FinalDue(q))}
    /\ IF resp.success
       THEN UNCHANGED << messages, isProcessing, processingTrace >>
       ELSE /\ messages' = Append(messages, ErrorMessage(q))
            /\ isProcessing' = FALSE
            /\ processingTrace' = NoTrace
    /\ UNCHANGED << elapsed, inputValue, suggestedQueries, selectedPersona, queries, queryCalls,
                    trace, persona >>
    /\ UNCHANGED << uploadVars, panelVars >>

ResolveQuery(q, resp) ==
    /\ call[q] = "pending"
    /\ call' = [call EXCEPT ![q] = "resolved"]
    /\ response' = [response EXCEPT ![q] = << resp >>]
    /\ timers' = timers \cup {Timer(q, 4, FinalDue(q))}
    /\ UNCHANGED << elapsed, inputValue, suggestedQueries, selectedPersona, messages,
                    isProcessing, processingTrace, queries, queryCalls, trace, persona >>
    /\ UNCHANGED << uploadVars, panelVars >>

\* A slip in the catch block: setIsProcessing(false) is forgotten.
RejectQueryKeepsFlag(q) ==
    /\ call[q] = "pending"
    /\ call' = [call EXCEPT ![q] = "rejected"]
    /\ messages' = Append(messages, ErrorMessage(q))
    /\ processingTrace' = NoTrace
    /\ elapsed' = Stopwatch(q, \E u \in timers : u.query = q)
    /\ UNCHANGED << inputValue, suggestedQueries, selectedPersona, queries, queryCalls, trace,
                    response, persona, timers, isProcessing >>
    /\ UNCHANGED << uploadVars, panelVars >>

\* A slip in the catch block: the first failure is retried, processQuery is
\* called once more and the invocation waits for it.
RejectQueryRetries(q) ==
    /\ call[q] = "pending"
    /\ IF queryCalls[q] < 2
       THEN /\ queryCalls' = [queryCalls EXCEPT ![q] = @ + 1]
            /\ UNCHANGED << call, messages, isProcessing, processingTrace, elapsed >>
       ELSE /\ call' = [call EXCEPT ![q] = "rejected"]
            /\ messages' = Append(messages, ErrorMessage(q))
            /\ isProcessing' = FALSE
            /\ processingTrace' = NoTrace
            /\ elapsed' = Stopwatch(q, \E u \in timers : u.query = q)
            /\ UNCHANGED queryCalls
    /\ UNCHANGED << inputValue, suggestedQueries, selectedPersona, queries,
                    trace, response, persona, timers >>
    /\ UNCHANGED << uploadVars, panelVars >>

\* What the catch block leaves of the invocation's timers: it clears none.
TimersAfterCatch(q) == timers

RejectQuery(q) ==
    /\ call[q] = "pending"
    /\ call' = [call EXCEPT ![q] = "rejected"]
    /\ messages' = Append(messages, ErrorMessage(q))
    /\ isProcessing' = FALSE
    /\ processingTrace' = NoTrace
    /\ timers' = TimersAfterCatch(q)
    /\ elapsed' = Stopwatch(q, \E u \in TimersAfterCatch(q) : u.query = q)
    /\ UNCHANGED << inputValue, suggestedQueries, selectedPersona, queries, queryCalls,
                    trace, response, persona >>
    /\ UNCHANGED << uploadVars, panelVars >>

(***************************************************************************)
(* Time passes, for every invocation that still waits for something, while *)
(* no callback is due.                                                     *)
(***************************************************************************)
Tick ==
    /\ \E q \in QueryIds : Active(q)
    /\ \A t \in timers : ~Due(t)
    /\ \A q \in QueryIds : Active(q) => elapsed[q] + Quantum <= MaxTime
    /\ elapsed' = [q \in QueryIds |-> IF Active(q) THEN elapsed[q] + Quantum ELSE 0]
    /\ UNCHANGED << inputValue, suggestedQueries, selectedPersona, messages,
                    isProcessing, processingTrace, queries, queryCalls, trace, call, response,
                    persona, timers >>
    /\ UNCHANGED << uploadVars, panelVars >>

ChatNext ==
    \/ \E p \in Personas : SelectPersona(p)
    \/ \E v \in Inputs : SetInputValue(v)
    \/ \E s \in Inputs : HandleSuggestedQuery(s)
    \/ HandleSendMessage
    \/ HandleSendMessageIgnored
    \/ \E t \in timers : StepTimer(t)
    \/ \E t \in timers : FinalTimer(t)
    \/ \E q \in QueryIds, resp \in Responses : ResolveQuery(q, resp)
    \/ \E q \in QueryIds : RejectQuery(q)
    \/ Tick

(***************************************************************************)
(* FileUpload.                                                             *)
(***************************************************************************)
\* Program constants of FileUpload (defaults of its props, and the ticker).
MaxSize == 10 * 1024 * 1024
AcceptedTypes == {"application/pdf", "text/csv"}
ProgressStep == 10
ProgressCap == 90
ProgressDone == 100

MiB == 1024 * 1024

\* The files a user may drop.
Files ==
    { [name |-> "a.csv", type |-> "text/csv", size |-> 2 * MiB],
      [name |-> "b.pdf", type |-> "application/pdf", size |-> 15 * MiB],
      [name |-> "c.png", type |-> "image/png", size |-> 1 * MiB] }

\* What onFileUpload may reject with: an Error, or a value that is none.
Rejections ==
    { [isError |-> TRUE, message |-> "Network Error"],
      [isError |-> FALSE, message |-> ""] }

NoError == "undefined"

DropIds == 1 .. MaxDrops

FileLists == UNION { [1 .. n -> Files] : n \in 0 .. MaxFiles }

\* A slip in the dropzone options: maxSize is not passed.
AcceptsAnySize(f) == f.type \in AcceptedTypes

\* useDropzone({accept, maxSize}): onDrop gets the files that pass both.
Accepts(f) == f.type \in AcceptedTypes /\ f.size <= MaxSize

RECURSIVE AcceptedFiles(_)
AcceptedFiles(fs) ==
    IF fs = <<>> THEN <<>>
    ELSE IF Accepts(Head(fs)) THEN << Head(fs) >> \o AcceptedFiles(Tail(fs))
         ELSE AcceptedFiles(Tail(fs))

NewUpload(id, f) ==
    [id |-> id, name |-> f.name, size |-> f.size, type |-> f.type,
     status |-> "uploading", progress |-> 0, error |-> NoError]

Min(a, b) == IF a < b THEN a ELSE b

\* A slip in the ticker: the row is rebuilt from the closure's upload object, not
\* from the row in the state, so its status is that of the row at creation.
TickedFromClosure(u) ==
    [u EXCEPT !.status = "uploading",
              !.progress = Min(u.progress + ProgressStep, ProgressCap)]

\* A slip in the ticker: the progress wraps at 100 and is not capped.
TickedWrapping(u) == [u EXCEPT !.progress = (u.progress + ProgressStep) % ProgressDone]

\* A slip in the ticker: the cap is 100, not 90.
TickedToDone(u) == [u EXCEPT !.progress = Min(u.progress + ProgressStep, ProgressDone)]

\* The ticker's new row: { ...u, progress: Math.min(u.progress + 10, 90) }
Ticked(u) == [u EXCEPT !.progress = Min(u.progress + ProgressStep, ProgressCap)]

\* A slip in the try block: the progress is left where the ticker put it.
CompletedKeepsProgress(u) == [u EXCEPT !.status = "completed"]

Completed(u) == [u EXCEPT !.status = "completed", !.progress = ProgressDone]

ErrorText(r) == IF r.isError THEN r.message ELSE "Upload failed"

Failed(u, r) == [u EXCEPT !.status = "error", !.error = ErrorText(r)]

\* The three updates of the rows, each prev.map(u => u.id === id ? ... : u).
TickedRows(prev, id) ==
    [i \in 1 .. Len(prev) |-> IF prev[i].id = id THEN Ticked(prev[i]) ELSE prev[i]]

CompletedRows(prev, id) ==
    [i \in 1 .. Len(prev) |-> IF prev[i].id = id THEN Completed(prev[i]) ELSE prev[i]]

\* A slip in the catch block: the id test is lost, every row is marked.
FailedRowsAll(prev, id, r) == [i \in 1 .. Len(prev) |-> Failed(prev[i], r)]

FailedRows(prev, id, r) ==
    [i \in 1 .. Len(prev) |-> IF prev[i].id = id THEN Failed(prev[i], r) ELSE prev[i]]

RECURSIVE Filter(_, _)
Filter(prev, id) ==
    IF prev = <<>> THEN <<>>
    ELSE IF Head(prev).id # id THEN << Head(prev) >> \o Filter(Tail(prev), id)
         ELSE Filter(Tail(prev), id)

IdleDrop == [files |-> <<>>, pos |-> 0, current |-> 0, state |-> "idle"]

UploadInit ==
    /\ uploads = <<>>
    /\ intervals = {}
    /\ drops = [d \in DropIds |-> IdleDrop]
    /\ nextId = 1
    /\ dropped = 0
    /\ offered = [d \in DropIds |-> <<>>]
    /\ uploadCalls = <<>>

\* onFileUpload(file), called by invocation d of onDrop for the upload id.
UploadCall(d, id, f) == [drop |-> d, id |-> id, file |-> f]

\* One turn of onDrop's loop, up to its await: the row is added, the ticker
\* started and onFileUpload called; past the last file the invocation returns.
\* ups and ivs are the rows and tickers the turn starts from.
LoopTurn(d, files, pos, ups, ivs) ==
    IF pos > Len(files)
    THEN /\ drops' = [drops EXCEPT ![d] =
                        [files |-> files, pos |-> pos, current |-> 0, state |-> "done"]]
         /\ uploads' = ups
         /\ intervals' = ivs
         /\ nextId' = nextId
         /\ uploadCalls' = uploadCalls
    ELSE /\ drops' = [drops EXCEPT ![d] =
                        [files |-> files, pos |-> pos, current |-> nextId,
                         state |-> "awaiting"]]
         /\ uploads' = Append(ups, NewUpload(nextId, files[pos]))
         /\ intervals' = ivs \cup {nextId}
         /\ uploadCalls' = Append(uploadCalls, UploadCall(d, nextId, files[pos]))
         /\ nextId' = nextId + 1

\* The dropzone hands the files that pass its checks to onDrop.
OnDrop(d, fs) ==
    /\ drops[d].state = "idle"
    /\ \A e \in DropIds : e < d => drops[e].state # "idle"
    /\ dropped + Len(fs) <= MaxFiles
    /\ dropped' = dropped + Len(fs)
    /\ offered' = [offered EXCEPT ![d] = fs]
    /\ LoopTurn(d, AcceptedFiles(fs), 1, uploads, intervals)
    /\ UNCHANGED << chatVars, panelVars >>

\* The setInterval callback of upload id.
IntervalTick(id) ==
    /\ id \in intervals
    /\ uploads' = TickedRows(uploads, id)
    /\ UNCHANGED << intervals, drops, nextId, dropped, offered, uploadCalls >>
    /\ UNCHANGED << chatVars, panelVars >>

\* A slip in the try block: clearInterval is forgotten.
IntervalsKeptAfterSuccess(id) == intervals

\* The tickers left once the try block has run to its end.
IntervalsAfterSuccess(id) == intervals \ {id}

\* The tickers left once the catch block has run: it clears none.
IntervalsAfterCatch(id) == intervals

\* onFileUpload resolves: the rest of the try block, then the next turn.
ResolveUpload(d) ==
    /\ drops[d].state = "awaiting"
    /\ LET id == drops[d].current
       IN LoopTurn(d, drops[d].files, drops[d].pos + 1,
                   CompletedRows(uploads, id), IntervalsAfterSuccess(id))
    /\ UNCHANGED << dropped, offered >>
    /\ UNCHANGED << chatVars, panelVars >>

\* A slip in onDrop: the try/catch is around the loop, a rejection ends the batch.
RejectUploadEndsBatch(d, r) ==
    /\ drops[d].state = "awaiting"
    /\ uploads' = FailedRows(uploads, drops[d].current, r)
    /\ drops' = [drops EXCEPT ![d].state = "done", ![d].current = 0]
    /\ UNCHANGED << intervals, nextId, uploadCalls, dropped, offered >>
    /\ UNCHANGED << chatVars, panelVars >>

\* onFileUpload rejects: the catch block, then the next turn.
RejectUpload(d, r) ==
    /\ drops[d].state = "awaiting"
    /\ LET id == drops[d].current
       IN LoopTurn(d, drops[d].files, drops[d].pos + 1,
                   FailedRows(uploads, id, r), IntervalsAfterCatch(id))
    /\ UNCHANGED << dropped, offered >>
    /\ UNCHANGED << chatVars, panelVars >>

\* removeUpload(id), from the row's button.
RemoveUpload(id) ==
    /\ \E i \in 1 .. Len(uploads) : uploads[i].id = id
    /\ uploads' = Filter(uploads, id)
    /\ UNCHANGED << intervals, drops, nextId, dropped, offered, uploadCalls >>
    /\ UNCHANGED << chatVars, panelVars >>

UploadIds == 1 .. MaxFiles

UploadNext ==
    \/ \E d \in DropIds, fs \in FileLists : OnDrop(d, fs)
    \/ \E id \in UploadIds : IntervalTick(id)
    \/ \E d \in DropIds : ResolveUpload(d)
    \/ \E d \in DropIds, r \in Rejections : RejectUpload(d, r)
    \/ \E id \in UploadIds : RemoveUpload(id)

(***************************************************************************)
(* LeftPanel: the parent whose handleFileUpload is FileUpload's             *)
(* onFileUpload.  The repository has two of them.                          *)
(***************************************************************************)
NoPanel == "none"

\* components/LeftPanel.tsx: handleFileUpload logs every failure and returns.
SwallowingPanel == "LeftPanel.tsx"

\* part_002: handleFileUpload rethrows, and reloads the datasets on success.
ReloadingPanel == "part_002"

Panels == {SwallowingPanel, ReloadingPanel}

\* What uploadFile may resolve with.
UploadResponses ==
    { [success |-> TRUE, error |-> ""],
      [success |-> FALSE, error |-> "Unsupported file"],
      [success |-> FALSE, error |-> ""] }

\* How getDatasets may end.
DatasetOutcomes ==
    { [settled |-> "resolved", success |-> TRUE, datasets |-> << "a.csv" >>],
      [settled |-> "resolved", success |-> FALSE, datasets |-> <<>>],
      [settled |-> "rejected", success |-> FALSE, datasets |-> <<>>] }

GotDatasets(o) == o.settled = "resolved" /\ o.success

\* FileUpload under a parent that is not looked into.
PanelNone ==
    /\ panel = NoPanel
    /\ isLoadingDatasets = FALSE
    /\ datasets = <<>>
    /\ loads = 0
    /\ refreshing = {}
    /\ transport = [id \in UploadIds |-> "none"]
    /\ refreshFailed = {}

\* LeftPanel p mounted; the mount effect of part_002 has called loadDatasets.
PanelInit ==
    /\ panel \in Panels
    /\ isLoadingDatasets = (panel = ReloadingPanel)
    /\ datasets = <<>>
    /\ loads = (IF panel = ReloadingPanel THEN 1 ELSE 0)
    /\ refreshing = {}
    /\ transport = [id \in UploadIds |-> "none"]
    /\ refreshFailed = {}

\* onDrop's continuation once handleFileUpload has settled: the rows and tickers
\* its try or catch block leaves, then the next turn of the loop.
Continue(d, ups, ivs) ==
    /\ LoopTurn(d, drops[d].files, drops[d].pos + 1, ups, ivs)
    /\ UNCHANGED << dropped, offered >>
    /\ UNCHANGED chatVars

Returned(d) ==
    LET id == drops[d].current
    IN Continue(d, CompletedRows(uploads, id), IntervalsAfterSuccess(id))

Thrown(d, r) ==
    LET id == drops[d].current
    IN Continue(d, FailedRows(uploads, id, r), IntervalsAfterCatch(id))

\* new Error(response.error || 'Upload failed')
ResponseError(resp) ==
    [isError |-> TRUE, message |-> IF resp.error # "" THEN resp.error ELSE "Upload failed"]

\* The start of loadDatasets, up to its await.
LoadingStarted == isLoadingDatasets' = TRUE

\* The rest of loadDatasets: the try block after the await, then finally.
LoadingEnded(o) ==
    /\ datasets' = (IF GotDatasets(o) THEN o.datasets ELSE datasets)
    /\ isLoadingDatasets' = FALSE

\* A slip in loadDatasets: the catch block rethrows, and an unsuccessful
\* response is thrown.
LoadDatasetsRethrows(o) == ~GotDatasets(o)

\* Whether loadDatasets throws to its caller: its catch block takes everything.
LoadDatasetsThrows(o) == FALSE

\* uploadFile resolves, in the handleFileUpload of invocation d.
UploadFileResolves(d, resp) ==
    /\ panel # NoPanel
    /\ drops[d].state = "awaiting"
    /\ d \notin refreshing
    /\ transport' = [transport EXCEPT ![drops[d].current] =
                        IF resp.success THEN "ok" ELSE "failed"]
    /\ IF panel = SwallowingPanel
       THEN /\ Returned(d)
            /\ UNCHANGED << isLoadingDatasets, refreshing >>
       ELSE IF resp.success
            THEN /\ LoadingStarted
                 /\ refreshing' = refreshing \cup {d}
                 /\ UNCHANGED << chatVars, uploadVars >>
            ELSE /\ Thrown(d, ResponseError(resp))
                 /\ UNCHANGED << isLoadingDatasets, refreshing >>
    /\ UNCHANGED << panel, datasets, loads, refreshFailed >>

\* uploadFile rejects, in the handleFileUpload of invocation d.
UploadFileRejects(d, r) ==
    /\ panel # NoPanel
    /\ drops[d].state = "awaiting"
    /\ d \notin refreshing
    /\ transport' = [transport EXCEPT ![drops[d].current] = "failed"]
    /\ IF panel = SwallowingPanel THEN Returned(d) ELSE Thrown(d, r)
    /\ UNCHANGED << panel, isLoadingDatasets, datasets, loads, refreshing, refreshFailed >>

\* getDatasets settles for the loadDatasets that handleFileUpload awaits.
RefreshSettles(d, o) ==
    /\ d \in refreshing
    /\ refreshing' = refreshing \ {d}
    /\ LoadingEnded(o)
    /\ refreshFailed' =
          (IF GotDatasets(o) THEN refreshFailed ELSE refreshFailed \cup {drops[d].current})
    /\ IF LoadDatasetsThrows(o)
       THEN Thrown(d, [isError |-> TRUE, message |-> "Network Error"])
       ELSE Returned(d)
    /\ UNCHANGED << panel, loads, transport >>

\* getDatasets settles for a loadDatasets of the mount effect or of the button.
LoadSettles(o) ==
    /\ loads > 0
    /\ loads' = loads - 1
    /\ LoadingEnded(o)
    /\ UNCHANGED << panel, refreshing, transport, refreshFailed >>
    /\ UNCHANGED << chatVars, uploadVars >>

\* The button of the datasets tab, disabled while isLoadingDatasets.
ClickLoadDatasets ==
    /\ panel = ReloadingPanel
    /\ ~isLoadingDatasets
    /\ LoadingStarted
    /\ loads' = loads + 1
    /\ UNCHANGED << panel, datasets, refreshing, transport, refreshFailed >>
    /\ UNCHANGED << chatVars, uploadVars >>

\* A drop on the FileUpload of a LeftPanel, within the bound on its files.
PanelDrop(d, fs) ==
    /\ dropped + Len(fs) <= MaxPanelFiles
    /\ OnDrop(d, fs)

PanelNext ==
    \/ \E d \in DropIds, fs \in FileLists : PanelDrop(d, fs)
    \/ \E id \in UploadIds : IntervalTick(id)
    \/ \E id \in UploadIds : RemoveUpload(id)
    \/ \E d \in DropIds, resp \in UploadResponses : UploadFileResolves(d, resp)
    \/ \E d \in DropIds, r \in Rejections : UploadFileRejects(d, r)
    \/ \E d \in DropIds, o \in DatasetOutcomes : RefreshSettles(d, o)
    \/ \E o \in DatasetOutcomes : LoadSettles(o)
    \/ ClickLoadDatasets

(***************************************************************************)
(* Properties of the query lifecycle (ChatSpec).                           *)
(***************************************************************************)
Started(q) == q <= queries

MessageIndexes == 1 .. Len(messages)

\* The success completion's message carries metadata, the fallback does not.
IsReply(m, q) == m.type = "assistant" /\ m.query = q /\ m.persona # NoPersona

IsFallback(m, q) ==
    m.type = "assistant" /\ m.query = q /\ m.persona = NoPersona /\ m.content = FallbackText

Replies(q) == {k \in MessageIndexes : IsReply(messages[k], q)}

Fallbacks(q) == {k \in MessageIndexes : IsFallback(messages[k], q)}

FinalPending(q) == \E t \in timers : t.query = q /\ t.step = 4

StepStatus(q, i) == trace[q].steps[i].status

\* The step in which invocation q takes the success completion.
SuccessCompletion(q) ==
    Started(q) /\ StepStatus(q, 4) # "completed" /\ trace'[q].steps[4].status = "completed"

\* The step in which invocation q takes the error completion.
ErrorCompletion(q) == call[q] = "pending" /\ call'[q] = "rejected"

\* C2 (as claimed): once a query's call has rejected, the visible trace is none
\* and stays none until a new query is started.
C2_TraceStaysNone ==
    \A q \in QueryIds : (call[q] = "rejected" /\ queries = q) => processingTrace = NoTrace

\* C4 (as claimed): the visible trace belongs to the most recently started query,
\* or is none; no timer of an earlier query publishes over it.
C4_TraceOfLatestQuery == processingTrace.ref \in {0, queries}

\* The time on invocation q's clock at which its call resolved: the final callback
\* was scheduled FinalDelay after it.
ResolvedAt(q) == (CHOOSE t \in timers : t.query = q /\ t.step = 4).due - FinalDelay

\* C5 (as claimed): when the call resolves before the final scheduled tick, step 4
\* is completed, and the completed trace published, 3500 ms after the start.
C5_CompletedAtFinalTick ==
    [][\A q \in QueryIds :
         (SuccessCompletion(q) /\ ResolvedAt(q) < FinalDelay)
            => (elapsed[q] = FinalDelay /\ processingTrace'.ref = q)]_vars

\* C6: the outcome of a query matches the outcome of its call, whenever the call
\* settles: the reply is emitted, step 4 completed and the result attached only
\* for a resolved call, and for every resolved call once its final callback has
\* run; the fallback is emitted exactly for a rejected call, and the visible trace is
\* set to none in that step.
C6_OutcomeState ==
    \A q \in QueryIds :
        /\ Replies(q) # {} <=> (call[q] = "resolved" /\ ~FinalPending(q))
        /\ Replies(q) # {} =>
              /\ StepStatus(q, 4) = "completed"
              /\ trace[q].finalResult = response[q]
              /\ \A k \in Replies(q) : messages[k].content = response[q][1].response
        /\ Fallbacks(q) # {} <=> call[q] = "rejected"
        /\ call[q] = "rejected" => StepStatus(q, 4) # "completed" /\ trace[q].finalResult = <<>>

C6_OutcomeStep ==
    \A q \in QueryIds :
        /\ ErrorCompletion(q) => processingTrace' = NoTrace
        /\ SuccessCompletion(q) =>
              processingTrace' = [ref |-> q, totalDuration |-> TotalDuration,
                                  finalResult |-> response[q]]

\* C6: in every state, and in every completion step, the outcome of a query is
\* that of its call (C6_OutcomeState and C6_OutcomeStep above).
C6_OutcomeMatchesCall == []C6_OutcomeState /\ [][C6_OutcomeStep]_vars

C6_Witness ==
    \E q, r \in QueryIds :
        /\ call[q] = "rejected" /\ Fallbacks(q) # {}
        /\ call[r] = "resolved" /\ Replies(r) # {} /\ ~response[r][1].success

\* C7: in every state of a trace, step i+1 is processing or completed only if
\* step i is completed.
C7_StepsInOrder ==
    \A q \in QueryIds :
        Started(q) =>
            \A i \in 1 .. 3 :
                StepStatus(q, i + 1) \in {"processing", "completed"}
                    => StepStatus(q, i) = "completed"

C7_Witness ==
    \E q \in QueryIds : Started(q) /\ \A i \in 1 .. 4 : StepStatus(q, i) = "completed"

\* C8: a query takes at most one terminal transition, never both kinds, and it
\* has taken exactly one when it has nothing left to wait for.
C8_OneTerminalTransition ==
    \A q \in QueryIds :
        /\ Cardinality(Replies(q)) + Cardinality(Fallbacks(q)) <= 1
        /\ (Started(q) /\ ~Active(q)) =>
              Cardinality(Replies(q)) + Cardinality(Fallbacks(q)) = 1

C8_Witness ==
    /\ call[1] = "rejected" /\ ~Active(1) /\ StepStatus(1, 3) = "completed"
    /\ Cardinality(Fallbacks(1)) = 1
    /\ Started(2) /\ ~Active(2) /\ Cardinality(Replies(2)) = 1

\* C9: the processing flag is true from the start of a query until its success
\* or error completion, and that completion sets it to false.
Unfinished(q) == Started(q) /\ Replies(q) = {} /\ Fallbacks(q) = {}

C9_FlagState == \A q \in QueryIds : Unfinished(q) => isProcessing

C9_FlagStep ==
    \A q \in QueryIds : (SuccessCompletion(q) \/ ErrorCompletion(q)) => ~isProcessing'

\* C9: the flag is true while a query is unfinished, and the completing step sets
\* it to false (C9_FlagState and C9_FlagStep above).
C9_ProcessingFlag == []C9_FlagState /\ [][C9_FlagStep]_vars

C9_Witness ==
    \E q \in QueryIds :
        /\ Unfinished(q) /\ isProcessing /\ FinalPending(q)
        /\ StepStatus(q, 4) = "processing"
        /\ \E r \in QueryIds : r < q /\ call[r] = "rejected"

\* C17: step 4 is completed only for a call that has resolved and only once steps
\* 1 to 3 are completed, and the step that completes it is taken no earlier than
\* 3500 ms after the start, however early the call resolved.
C17_GatedState ==
    \A q \in QueryIds :
        (Started(q) /\ StepStatus(q, 4) = "completed") =>
            /\ call[q] = "resolved"
            /\ \A i \in 1 .. 3 : StepStatus(q, i) = "completed"

C17_GatedStep ==
    \A q \in QueryIds :
        SuccessCompletion(q) =>
            /\ elapsed[q] >= 3500
            /\ call[q] = "resolved"
            /\ \A i \in 1 .. 3 : StepStatus(q, i) = "completed"

\* C17: a fast call never speeds up the pipeline (C17_GatedState and
\* C17_GatedStep above).
C17_FastCallNeverSpeedsUp == []C17_GatedState /\ [][C17_GatedStep]_vars

\* A call that resolved at once, its final callback now due.
C17_Witness ==
    \E q \in QueryIds, t \in timers :
        /\ t.query = q /\ t.step = 4 /\ t.due = 3500 /\ elapsed[q] = 3500
        /\ call[q] = "resolved"
        /\ StepStatus(q, 3) = "completed" /\ StepStatus(q, 4) = "processing"

C18_Offset(i) == CASE i = 1 -> 500 [] i = 2 -> 1300 [] i = 3 -> 2500

C18_OnScheduleState ==
    \A q \in QueryIds :
        call[q] = "pending" =>
            /\ \A i \in 1 .. 3 :
                  /\ elapsed[q] < C18_Offset(i) => StepStatus(q, i) # "completed"
                  /\ elapsed[q] > C18_Offset(i) => StepStatus(q, i) = "completed"
            /\ StepStatus(q, 4) = "processing" <=> StepStatus(q, 3) = "completed"

C18_OnScheduleStep ==
    \A q \in QueryIds :
        (call[q] = "pending" /\ call'[q] = "pending") =>
            /\ \A i \in 1 .. 3 :
                  (StepStatus(q, i) # "completed" /\ trace'[q].steps[i].status = "completed")
                      => elapsed[q] = C18_Offset(i)
            /\ (StepStatus(q, 4) # "processing" /\ trace'[q].steps[4].status = "processing")
                  => elapsed[q] = 2500

\* C18: while the call of a query is pending, steps 1, 2 and 3 are completed at
\* 500, 1300 and 2500 ms after its start, neither earlier nor later, and step 4
\* is processing from 2500 ms on.
C18_SlowCallNeverSlowsDown == []C18_OnScheduleState /\ [][C18_OnScheduleStep]_vars

C18_Witness ==
    \E q \in QueryIds :
        /\ call[q] = "pending" /\ elapsed[q] >= 3500
        /\ \A i \in 1 .. 3 : StepStatus(q, i) = "completed"
        /\ StepStatus(q, 4) = "processing"

\* The assistant messages and the user messages of invocation q.
C20_Assistant(q) ==
    {k \in MessageIndexes : messages[k].type = "assistant" /\ messages[k].query = q}

C20_User(q) == {k \in MessageIndexes : messages[k].type = "user" /\ messages[k].query = q}

C20_OneMessageState ==
    \A q \in QueryIds :
        /\ Cardinality(C20_Assistant(q)) <= 1
        /\ Cardinality(C20_User(q)) = (IF Started(q) THEN 1 ELSE 0)
        /\ C20_Assistant(q) # {} <=>
              (call[q] = "rejected" \/ (call[q] = "resolved" /\ ~FinalPending(q)))
        /\ \A k \in C20_Assistant(q) :
              /\ \A u \in C20_User(q) : u < k
              /\ call[q] = "resolved" =>
                    /\ messages[k].content = response[q][1].response
                    /\ messages[k].suggestedQueries = response[q][1].suggested_queries
              /\ call[q] = "rejected" =>
                    /\ messages[k].content = FallbackText
                    /\ messages[k].suggestedQueries = <<>>

C20_OneMessageStep ==
    (messages' # messages /\ messages'[Len(messages')].type = "assistant") =>
        /\ messages' = Append(messages, messages'[Len(messages')])
        /\ \E q \in QueryIds :
              /\ messages'[Len(messages')].query = q
              /\ SuccessCompletion(q) \/ ErrorCompletion(q)

\* C20: a started query has one user message and at most one assistant message;
\* the assistant message is appended in the query's completing step and in no
\* other, after the user message, and carries the response text and suggested
\* queries of a resolved call, the fallback text of a rejected one.
C20_OneAssistantMessage == []C20_OneMessageState /\ [][C20_OneMessageStep]_vars

C20_Witness ==
    \E q, r \in QueryIds, k, l \in MessageIndexes :
        /\ call[q] = "resolved" /\ k \in C20_Assistant(q)
        /\ messages[k].suggestedQueries # <<>>
        /\ call[r] = "rejected" /\ l \in C20_Assistant(r)
        /\ messages[l].content = FallbackText

\* Steps 1 .. k-1 completed, step k processing, the rest pending (k = 5: all
\* completed).
C26_Pipeline(steps) ==
    /\ Len(steps) = 4
    /\ \E k \in 1 .. 5 :
          \A i \in 1 .. 4 :
              steps[i].status = (IF i < k THEN "completed"
                                 ELSE IF i = k THEN "processing" ELSE "pending")

C26_ShapeState ==
    /\ processingTrace.ref # 0 => C26_Pipeline(VisibleSteps)
    /\ \A q \in QueryIds : Started(q) => C26_Pipeline(trace[q].steps)

C26_ShapeStep ==
    \A q \in QueryIds :
        Started(q) =>
            \A i \in 1 .. 4 :
                StepStatus(q, i) = "completed" => trace'[q].steps[i].status = "completed"

\* C26: every trace, published or not, has its completed steps first, then at
\* most one processing step, then pending steps, and none in error; a completed
\* step of a query stays completed.
C26_TraceShape == []C26_ShapeState /\ [][C26_ShapeStep]_vars

C26_Witness ==
    /\ processingTrace.ref # 0
    /\ VisibleSteps[1].status = "completed" /\ VisibleSteps[2].status = "processing"
    /\ VisibleSteps[3].status = "pending" /\ VisibleSteps[4].status = "pending"
    /\ call[processingTrace.ref] = "rejected"

\* C28: the totalDuration of a trace is 0 and its finalResult is none while step
\* 4 is not completed; once it is, totalDuration is 3500, the sum of the four
\* step durations 500, 800, 1200 and 1000, and finalResult is the response; the
\* published copy agrees.
C28_TotalDuration ==
    \A q \in QueryIds :
        Started(q) =>
            /\ StepStatus(q, 4) # "completed" =>
                  trace[q].totalDuration = 0 /\ trace[q].finalResult = <<>>
            /\ StepStatus(q, 4) = "completed" =>
                  /\ trace[q].totalDuration = 3500
                  /\ \A i \in 1 .. 4 : Len(trace[q].steps[i].duration) = 1
                  /\ trace[q].steps[1].duration = << 500 >>
                  /\ trace[q].steps[2].duration = << 800 >>
                  /\ trace[q].steps[3].duration = << 1200 >>
                  /\ trace[q].steps[4].duration = << 1000 >>
                  /\ trace[q].totalDuration =
                        trace[q].steps[1].duration[1] + trace[q].steps[2].duration[1]
                        + trace[q].steps[3].duration[1] + trace[q].steps[4].duration[1]
                  /\ trace[q].finalResult = response[q]
                  /\ response[q] # <<>>
            /\ processingTrace.ref = q =>
                  /\ processingTrace.totalDuration = trace[q].totalDuration
                  /\ processingTrace.finalResult = trace[q].finalResult

\* Two completed traces, whose calls were not resolved with the same response.
C28_Witness ==
    \E q, r \in QueryIds :
        /\ q # r /\ Started(q) /\ Started(r)
        /\ StepStatus(q, 4) = "completed" /\ trace[q].totalDuration = 3500
        /\ StepStatus(r, 4) = "completed" /\ trace[r].totalDuration = 3500
        /\ response[q] # response[r]
        /\ processingTrace.totalDuration = 3500

\* The call of invocation q settles, one way or the other.
SettleQuery(q) == (\E resp \in Responses : ResolveQuery(q, resp)) \/ RejectQuery(q)

\* A setTimeout callback that is due runs.
RunTimer == \E t \in timers : StepTimer(t) \/ FinalTimer(t)

\* Every call of processQuery settles in the end; time passes and due callbacks
\* run.
ChatFairness ==
    /\ \A q \in QueryIds : WF_vars(SettleQuery(q))
    /\ WF_vars(RunTimer)
    /\ WF_vars(Tick)

\* The clock of invocation q has reached the end of the time modelled.
C24_TimeUp(q) == elapsed[q] + Quantum > MaxTime

\* C24: with every call settling, a query whose call is pending (there is at
\* most one at a time) reaches a state where isProcessing is false, within the
\* time modelled; and as long as the call is pending isProcessing is true, no
\* timer sets it to false.
C24_FlagFalseOnceSettled ==
    /\ (\E q \in QueryIds : call[q] = "pending")
          ~> (~isProcessing \/ \E q \in QueryIds : C24_TimeUp(q))
    /\ [](\A q \in QueryIds : call[q] = "pending" => isProcessing)

\* One query through and the flag false again for it; the next one still pending
\* at the end of the time modelled, the flag true.
C24_Witness ==
    \E q, r \in QueryIds :
        /\ call[q] = "resolved" /\ ~FinalPending(q) /\ Replies(q) # {}
        /\ call[r] = "pending" /\ elapsed[r] = MaxTime /\ isProcessing

\* Submitting is blocked: processing, no persona, or a blank input.
C25_Blocked == isProcessing \/ selectedPersona = NoPersona \/ Trim(inputValue) = <<>>

C25_AtMostOneCall == Cardinality({q \in QueryIds : call[q] = "pending"}) <= 1

C25_BlockedStep ==
    C25_Blocked =>
        /\ queries' = queries
        /\ queryCalls' = queryCalls
        /\ \A k \in 1 .. Len(messages') : messages'[k].type = "user" => k <= Len(messages)
        /\ \A t \in timers' : Started(t.query)
        /\ \A q \in QueryIds : ~Started(q) => trace'[q] = EmptyTrace /\ call'[q] = "none"

\* C25: no step taken while submitting is blocked adds a user message, a trace,
\* a call of processQuery or a timer of a new query; hence at most one call of
\* processQuery is pending in any state.
C25_SubmitGuard == []C25_AtMostOneCall /\ [][C25_BlockedStep]_vars

\* A submit that is ignored: text in the input, a persona, a call pending.
C25_Witness ==
    /\ isProcessing /\ selectedPersona # NoPersona /\ Trim(inputValue) # <<>>
    /\ \E q \in QueryIds : call[q] = "pending"

(***************************************************************************)
(* Properties of the uploads (UploadSpec).                                 *)
(***************************************************************************)
Rows == 1 .. Len(uploads)

Terminal(u) == u.status \in {"completed", "error"}

\* C1 (as claimed): once an upload's call has rejected, its row (status error,
\* the failure message) is changed by no tick again.
C1_NoTickAfterError ==
    [][\A i \in Rows : uploads[i].status = "error" =>
          \A j \in 1 .. Len(uploads') :
              uploads'[j].id = uploads[i].id => uploads'[j] = uploads[i]]_vars

\* C3 (as claimed): when several accepted files are dropped together, the call of
\* every one of them is issued at once: an invocation never waits for a call with
\* files still to start.
C3_AllCallsIssuedAtOnce ==
    \A d \in DropIds : drops[d].state = "awaiting" => drops[d].pos = Len(drops[d].files)

\* C10: once the status of an upload is completed or error it never changes, by
\* ticks, by settlements or by events of other uploads.
C10_StatusMonotonic ==
    [][\A i \in Rows : Terminal(uploads[i]) =>
          \A j \in 1 .. Len(uploads') :
              uploads'[j].id = uploads[i].id => uploads'[j].status = uploads[i].status]_vars

C10_Witness ==
    \E i, j \in Rows :
        /\ uploads[i].status = "error" /\ uploads[i].progress > 0
        /\ uploads[i].id \in intervals
        /\ uploads[j].status = "completed"

RowIds(ups) == {ups[i].id : i \in 1 .. Len(ups)}

\* C11: while an upload has not reached a terminal status, its progress never
\* decreases from one state to the next.
C11_ProgressNonDecreasing ==
    [][\A i \in Rows : uploads[i].status = "uploading" =>
          \A j \in 1 .. Len(uploads') :
              uploads'[j].id = uploads[i].id
                  => uploads'[j].progress >= uploads[i].progress]_vars

C11_Witness ==
    \E i, j \in Rows :
        /\ uploads[i].status = "uploading" /\ uploads[i].progress = ProgressCap
        /\ uploads[j].status = "completed"

\* C12: an upload in status uploading has progress at most 90, and a tick changes
\* the progress of its own row only.
C12_CapState == \A i \in Rows : uploads[i].status = "uploading" => uploads[i].progress <= 90

\* A step that changes rows without adding or removing one and without moving any
\* invocation of onDrop is a tick.
C12_TickStep ==
    (drops' = drops /\ Len(uploads') = Len(uploads) /\ uploads' # uploads) =>
        \E i \in Rows :
            /\ uploads[i].id \in intervals
            /\ uploads' = [uploads EXCEPT ![i].progress = uploads'[i].progress]

\* C12: the cap in every state, the frame of a tick in every step.
C12_TickerCapped == []C12_CapState /\ [][C12_TickStep]_vars

C12_Witness ==
    \E i, j \in Rows :
        /\ uploads[i].status = "uploading" /\ uploads[i].progress = 90
        /\ uploads[j].status = "uploading" /\ uploads[j].progress = 0

\* C13: a completed upload has progress 100 and no ticker, and no later step
\* changes its row.
C13_CompletedState ==
    \A i \in Rows : uploads[i].status = "completed" =>
        uploads[i].progress = 100 /\ uploads[i].id \notin intervals

C13_CompletedStep ==
    \A i \in Rows : uploads[i].status = "completed" =>
        \A j \in 1 .. Len(uploads') :
            uploads'[j].id = uploads[i].id => uploads'[j] = uploads[i]

\* The step in which an invocation's call settles: the row of that upload, if
\* shown, is then completed with progress 100 and no ticker, or is in error.
C13_SettleStep ==
    \A d \in DropIds :
        (drops[d].state = "awaiting" /\ drops'[d] # drops[d]) =>
            \A j \in 1 .. Len(uploads') :
                uploads'[j].id = drops[d].current =>
                    \/ /\ uploads'[j].status = "completed"
                       /\ uploads'[j].progress = 100
                       /\ uploads'[j].id \notin intervals'
                    \/ uploads'[j].status = "error"

\* C13: completed with progress 100 and the ticker stopped, for good.
C13_CompletedIsFinal ==
    []C13_CompletedState /\ [][C13_CompletedStep /\ C13_SettleStep]_vars

C13_Witness ==
    \E i, j \in Rows :
        /\ i < j
        /\ uploads[i].status = "completed"
        /\ uploads[j].status = "uploading" /\ uploads[j].progress > 0

\* C14: the step in which one upload's call fails changes the status and the
\* error of that upload only, and leaves every other row as it was.
C14_FailureIsolated ==
    [][\A i \in Rows :
          (uploads[i].status # "error" /\ i <= Len(uploads')
             /\ uploads'[i].id = uploads[i].id /\ uploads'[i].status = "error")
          => /\ uploads'[i] = [uploads[i] EXCEPT !.status = "error",
                                                  !.error = uploads'[i].error]
             /\ \A j \in Rows \ {i} : j <= Len(uploads') /\ uploads'[j] = uploads[j]]_vars

C14_Witness ==
    \E i, j \in Rows :
        /\ j < i
        /\ uploads[i].status = "error" /\ uploads[i].error = "Network Error"
        /\ uploads[j].status = "uploading" /\ uploads[j].progress > 0

\* The claim's own reading of a valid file: a PDF or CSV of at most 10 MiB.
C15_Valid(f) == f.type \in {"application/pdf", "text/csv"} /\ f.size <= 10 * 1024 * 1024

\* The files that invocation d of onDrop has called onFileUpload with, in order.
C15_FilesCalled(d) ==
    LET cs == SelectSeq(uploadCalls, LAMBDA c : c.drop = d)
    IN [k \in 1 .. Len(cs) |-> cs[k].file]

\* C15: no row and no call of onFileUpload is ever for a file of a wrong type or
\* over the maximum size; every row made comes with exactly one call; the files
\* an invocation has made rows for are, in order, the valid files of its drop:
\* the first of them while its loop runs, all of them once it has returned.
C15_OnlyValidFilesMakeTasks ==
    /\ \A i \in Rows : C15_Valid(uploads[i])
    /\ \A k \in 1 .. Len(uploadCalls) : C15_Valid(uploadCalls[k].file)
    /\ Len(uploadCalls) = nextId - 1
    /\ \A k \in 1 .. Len(uploadCalls) : uploadCalls[k].id = k
    /\ \A d \in DropIds :
          LET made == C15_FilesCalled(d)
              valid == SelectSeq(offered[d], C15_Valid)
          IN /\ Len(made) <= Len(valid)
             /\ made = SubSeq(valid, 1, Len(made))
             /\ drops[d].state = "done" => made = valid

C15_Witness ==
    \E d \in DropIds :
        /\ drops[d].state = "done"
        /\ Len(offered[d]) = 2
        /\ \E i, j \in 1 .. 2 : C15_Valid(offered[d][i]) /\ ~C15_Valid(offered[d][j])
        /\ Len(C15_FilesCalled(d)) = 1

\* C16 (as claimed): a dismissed upload never reappears, and the step in which
\* its call settles leaves the rows shown unchanged.
C16_DismissedCallDropped ==
    [][/\ \A id \in 1 .. nextId - 1 : id \notin RowIds(uploads) => id \notin RowIds(uploads')
       /\ \A d \in DropIds :
             (drops[d].state = "awaiting" /\ drops[d].current \notin RowIds(uploads)
                /\ drops'[d] # drops[d])
             => uploads' = uploads]_vars

\* The calls of onFileUpload made for the upload id.
C19_CallsFor(id) == {k \in 1 .. Len(uploadCalls) : uploadCalls[k].id = id}

\* C19: processQuery is called exactly once for every started query and
\* onFileUpload exactly once for every upload made, in every state, those after
\* a rejection included; a rejected query has no pending final callback and no
\* reply, and no invocation of onDrop waits for a call of a failed upload.
C19_NoRetries ==
    /\ \A q \in QueryIds :
          /\ queryCalls[q] = (IF Started(q) THEN 1 ELSE 0)
          /\ call[q] = "rejected" =>
                /\ ~FinalPending(q)
                /\ Replies(q) = {}
                /\ StepStatus(q, 4) # "completed"
    /\ \A id \in 1 .. nextId - 1 : Cardinality(C19_CallsFor(id)) = 1
    /\ \A i \in Rows :
          uploads[i].status = "error" =>
              /\ Cardinality(C19_CallsFor(uploads[i].id)) = 1
              /\ \A d \in DropIds :
                    ~(drops[d].state = "awaiting" /\ drops[d].current = uploads[i].id)

C19_Witness ==
    \E d \in DropIds, i, j \in Rows :
        /\ drops[d].state = "done"
        /\ uploads[i].status = "error" /\ uploads[j].status = "completed"
        /\ C19_CallsFor(uploads[i].id) # {}
        /\ uploadCalls[CHOOSE k \in C19_CallsFor(uploads[i].id) : TRUE].drop = d
        /\ Len(uploadCalls) = 2

\* C22: when the call of one file of a drop settles, by a rejection as by a
\* success, and the drop has accepted files left, the same step makes the row of
\* the next file and calls onFileUpload for it.
C22_BatchContinues ==
    [][\A d \in DropIds :
          (drops[d].state = "awaiting" /\ drops'[d] # drops[d]
             /\ drops[d].pos < Len(drops[d].files))
          => /\ drops'[d].state = "awaiting"
             /\ drops'[d].current = nextId
             /\ uploadCalls' = Append(uploadCalls,
                                      [drop |-> d, id |-> nextId,
                                       file |-> drops[d].files[drops[d].pos + 1]])
             /\ Len(uploads') > 0
             /\ uploads'[Len(uploads')].id = nextId
             /\ uploads'[Len(uploads')].status = "uploading"
             /\ uploads'[Len(uploads')].name = drops[d].files[drops[d].pos + 1].name]_vars

\* A drop of two files: the first failed, the second has its row and its call.
C22_Witness ==
    \E i, j \in Rows :
        /\ uploads[i].status = "error"
        /\ uploads[j].id = uploads[i].id + 1
        /\ Len(uploadCalls) >= uploads[j].id
        /\ uploadCalls[uploads[i].id].drop = uploadCalls[uploads[j].id].drop

\* C27: an upload has progress 100 exactly when its status is completed.
C27_FullIffCompleted ==
    \A i \in Rows : uploads[i].progress = 100 <=> uploads[i].status = "completed"

C27_Witness ==
    \E i, j \in Rows :
        /\ uploads[i].status = "completed" /\ uploads[i].progress = 100
        /\ uploads[j].status = "error" /\ uploads[j].progress = 90

\* The call that invocation d of onDrop waits for settles, one way or the other.
SettleUpload(d) == ResolveUpload(d) \/ \E r \in Rejections : RejectUpload(d, r)

\* Every call of onFileUpload that is issued settles in the end.
UploadFairness == \A d \in DropIds : WF_vars(SettleUpload(d))

C23_TasksEnd ==
    /\ \A d \in DropIds : (drops[d].state = "awaiting") ~> (drops[d].state = "done")
    /\ \A id \in UploadIds :
          (\E i \in Rows : uploads[i].id = id /\ uploads[i].status = "uploading")
              ~> (\A i \in Rows : uploads[i].id = id => Terminal(uploads[i]))

C23_TickersStop == \A id \in UploadIds : (id \in intervals) ~> (id \notin intervals)

\* C23 (as claimed): with every call settling, every invocation of onDrop gets
\* through all its files, every upload shown reaches completed or error, and
\* every ticker started is stopped.
C23_AllEndAndTickersStop == C23_TasksEnd /\ C23_TickersStop

(***************************************************************************)
(* Properties of FileUpload inside a LeftPanel (PanelSpec).                *)
(***************************************************************************)
\* C21 (as claimed): an upload whose uploadFile request rejected or returned
\* success = false is in status error with a message, never completed.
C21_TransportFailureIsError ==
    \A i \in Rows :
        transport[uploads[i].id] = "failed" =>
            uploads[i].status = "error" /\ uploads[i].error # NoError

\* C29: an upload whose request succeeded and whose follow-up loadDatasets got
\* no datasets (getDatasets rejected or returned success = false) is completed
\* with progress 100, never in error.
C29_RefreshFailureKeepsCompleted ==
    \A i \in Rows :
        uploads[i].id \in refreshFailed =>
            /\ transport[uploads[i].id] = "ok"
            /\ uploads[i].status = "completed"
            /\ uploads[i].progress = 100

C29_Witness ==
    \E i \in Rows :
        /\ panel = ReloadingPanel
        /\ uploads[i].id \in refreshFailed
        /\ uploads[i].status = "completed"
        /\ datasets = <<>>

\* C30 (as claimed): isLoadingDatasets is true whenever a getDatasets request is
\* in flight.
C30_LoadingWhileInFlight == (loads + Cardinality(refreshing) > 0) => isLoadingDatasets

Init == ChatInit /\ UploadInit /\ PanelNone

ChatSpec == Init /\ [][ChatNext]_vars

UploadSpec == Init /\ [][UploadNext]_vars

UploadFairSpec == UploadSpec /\ UploadFairness

ChatFairSpec == ChatSpec /\ ChatFairness

\* Either component on its own, the other left as mounted: the two share no
\* state, so what holds of each task of each component holds of Home.
TaskNext == (UploadInit /\ ChatNext) \/ (ChatInit /\ UploadNext)

TaskSpec == Init /\ [][TaskNext]_vars

\* FileUpload inside either LeftPanel.
MountedInit == ChatInit /\ UploadInit /\ PanelInit

PanelSpec == MountedInit /\ [][PanelNext]_vars

Next == ChatNext \/ UploadNext

Spec == Init /\ [][Next]_vars

====
